---- MODULE Spec2Model ----
(***************************************************************************)
(* rustshark capture engine: the CaptureManager state machine, the capture *)
(* task and its blocking capture thread, the packet processor task, the    *)
(* packet store with its buffer limit, the shared statistics and the stats *)
(* broadcaster (backend/src/capture/manager.rs, capture/parser.rs).        *)
(*                                                                         *)
(* Concurrency.  The manager lives in an Arc<tokio::sync::RwLock<..>>: the *)
(* HTTP handlers call start/stop/setters under the write lock and queries  *)
(* under the read lock.  The capture task, the blocking capture thread and *)
(* the processor task of a session run outside that lock, on other threads *)
(* of the runtime, and share with the manager the packet store (DashMap),  *)
(* the session's stats mutex, the broadcaster and the two process globals  *)
(* STOP_SIGNAL and STOP_REQUESTED.  Each action below is one step between  *)
(* two accesses to that shared state.  Tasks spawned by different requests *)
(* run on the runtimes of different server workers, hence in parallel.     *)
(*                                                                         *)
(* Time.  The clock advances by TickMs with every frame a capture handle   *)
(* delivers, so the frames of one run carry distinct, increasing           *)
(* timestamps, except in the Burst environment, whose frames share one.    *)
(***************************************************************************)
EXTENDS Integers, Sequences, FiniteSets, TLC

\* ---------------------------------------------------------------- bounds
MaxSessions == 2        \* successful start() calls in one run
MaxFrames == 3          \* frames the capture handles deliver in one run
ServiceSessions == 1    \* successful start() calls of a run with arbitrary clients
ServiceFrames == 2      \* frames delivered in a run with arbitrary clients
MaxFaults == 1          \* start() calls that fail to open the device in one run
TickMs == 500           \* wall-clock milliseconds between two delivered frames
TunedFrames == 1        \* frames delivered in a run of a client changing settings
ErrorRunBound == 5      \* errors in a row of a capture handle that are followed
MaxCallers == 2         \* handlers calling get_interface_info at the same time
CacheTickSecs == 30     \* seconds between two moments a cache call can be made at
MaxCacheSecs == 120     \* length of a run of cache calls
MaxPublished == 102     \* snapshots published while a connection lags
ThrottledSnapshots == 3 \* snapshots published in the Throttled scenario
ThrottledMs == 2000     \* length of the Throttled scenario
SilentMs == 20000       \* length of the Silent scenario

\* ------------------------------------------------------- program constants
MinBufferSize == 100                \* set_buffer_size floor
ChannelCapacity == 100              \* mpsc::channel(100)
StatsBroadcastIntervalMs == 1000    \* stats_broadcast_interval_ms
EthernetHeaderLen == 14             \* EthernetPacket::new minimum
Ipv4HeaderLen == 20                 \* Ipv4PacketMinimum
TcpHeaderLen == 20                  \* TcpPacket::new minimum
UdpHeaderLen == 8                   \* UdpPacket::new minimum
ArpPacketLen == 28                  \* ArpPacket::new minimum
Ipv6HeaderLen == 40                 \* Ipv6Packet::new minimum
IcmpHeaderLen == 4                  \* IcmpPacket::new minimum
DnsPort == 53

None == -1                  \* Option::None of a time
NoInterface == "none"       \* config.interface = None
NoFilter == "no filter"     \* config.filter = None
Sessions == 1..MaxSessions

\* ------------------------------------------------------------------ frames
\* A frame as the capture handle delivers it: its byte length and the header
\* fields the parser reads.
TcpFrame == [len |-> 60, ethertype |-> "Ipv4", ipproto |-> "Tcp", sport |-> 40000, dport |-> 443]
DnsFrame == [len |-> 80, ethertype |-> "Ipv4", ipproto |-> "Udp", sport |-> 53, dport |-> 34567]
ShortFrame == [len |-> 10, ethertype |-> "Ipv4", ipproto |-> "Tcp", sport |-> 0, dport |-> 0]
InputFrames == {TcpFrame, DnsFrame, ShortFrame}

\* The errors next_packet() returns, by what the capture loop looks for in them.
CaptureErrors == {"timed out", "no more packets", "other"}

\* The filter expressions a process is started with, and the ones pcap compiles.
BpfFilters == {"tcp", "((("}
ValidFilters == {"tcp"}

\* ------------------------------------------------------------- environments
\* What the world around the manager does in one run: the build target, the
\* interfaces the process may be started with, how many captures are started
\* and how many frames of which kinds the network delivers, whether opening
\* the device can fail, and what the HTTP clients do besides starting and
\* stopping in turn: calls the manager rejects, get_stats queries, settings.
\* Restart is the orderly client that starts, stops and starts again on a
\* busy link; Service is the arbitrary client of one capture; Filtered is a
\* process started with a capture filter, which pcap compiles or refuses; Tuned
\* is a client that changes every setting between and during captures; Overrun
\* is a server so loaded that the 10 s timeout of the stop handler can fire
\* while the stop_capture it runs is waiting for the capture task; Faulty is
\* a capture handle that keeps returning an error; Burst is a network whose
\* frames arrive within one reading of the clock.
Restart ==
    [windows |-> FALSE, interfaces |-> {"eth0"}, sessions |-> MaxSessions,
     frames |-> MaxFrames, kinds |-> {TcpFrame}, errors |-> {"timed out"}, faults |-> 0,
     stalls |-> FALSE, filters |-> {NoFilter},
     rejected |-> FALSE, queries |-> FALSE, settings |-> FALSE,
     tuning |-> FALSE, overruns |-> FALSE, burst |-> FALSE]
Service ==
    [windows |-> FALSE, interfaces |-> {NoInterface, "eth0"}, sessions |-> ServiceSessions,
     frames |-> ServiceFrames, kinds |-> InputFrames, errors |-> CaptureErrors \ {"other"},
     faults |-> MaxFaults, stalls |-> TRUE, filters |-> {NoFilter},
     rejected |-> TRUE, queries |-> TRUE, settings |-> TRUE,
     tuning |-> FALSE, overruns |-> FALSE, burst |-> FALSE]
WindowsService ==
    [windows |-> TRUE, interfaces |-> {"eth0"}, sessions |-> ServiceSessions,
     frames |-> ServiceFrames, kinds |-> {TcpFrame}, errors |-> CaptureErrors \ {"other"},
     faults |-> MaxFaults, stalls |-> TRUE, filters |-> {NoFilter},
     rejected |-> TRUE, queries |-> FALSE, settings |-> FALSE,
     tuning |-> FALSE, overruns |-> FALSE, burst |-> FALSE]
Filtered ==
    [windows |-> FALSE, interfaces |-> {"eth0"}, sessions |-> ServiceSessions,
     frames |-> ServiceFrames, kinds |-> {TcpFrame}, errors |-> {"timed out"},
     faults |-> 0, stalls |-> FALSE, filters |-> BpfFilters,
     rejected |-> FALSE, queries |-> FALSE, settings |-> FALSE,
     tuning |-> FALSE, overruns |-> FALSE, burst |-> FALSE]
Tuned ==
    [windows |-> FALSE, interfaces |-> {"eth0"}, sessions |-> MaxSessions,
     frames |-> TunedFrames, kinds |-> {TcpFrame}, errors |-> {"timed out"},
     faults |-> 0, stalls |-> FALSE, filters |-> {NoFilter},
     rejected |-> FALSE, queries |-> FALSE, settings |-> TRUE,
     tuning |-> TRUE, overruns |-> FALSE, burst |-> FALSE]
Overrun ==
    [windows |-> FALSE, interfaces |-> {"eth0"}, sessions |-> ServiceSessions,
     frames |-> ServiceFrames, kinds |-> {TcpFrame}, errors |-> {"timed out"},
     faults |-> 0, stalls |-> FALSE, filters |-> {NoFilter},
     rejected |-> TRUE, queries |-> FALSE, settings |-> FALSE,
     tuning |-> FALSE, overruns |-> TRUE, burst |-> FALSE]
Faulty ==
    [windows |-> FALSE, interfaces |-> {"eth0"}, sessions |-> ServiceSessions,
     frames |-> TunedFrames, kinds |-> {TcpFrame}, errors |-> CaptureErrors,
     faults |-> 0, stalls |-> FALSE, filters |-> {NoFilter},
     rejected |-> FALSE, queries |-> FALSE, settings |-> FALSE,
     tuning |-> FALSE, overruns |-> FALSE, burst |-> FALSE]
Burst ==
    [windows |-> FALSE, interfaces |-> {"eth0"}, sessions |-> ServiceSessions,
     frames |-> ServiceFrames, kinds |-> {TcpFrame}, errors |-> {"timed out"},
     faults |-> 0, stalls |-> FALSE, filters |-> {NoFilter},
     rejected |-> FALSE, queries |-> FALSE, settings |-> FALSE,
     tuning |-> FALSE, overruns |-> FALSE, burst |-> TRUE]
Environments == {Restart, Service, WindowsService, Filtered, Tuned, Overrun, Faulty, Burst}

\* The interface cache (CaptureManager::get_interface_info)
interface_cache_duration == 60  \* seconds
Callers == 1..MaxCallers

\* WebSocket adapter (api/websocket.rs)
HEARTBEAT_INTERVAL == 5         \* seconds
STATS_THROTTLE_MS == 1000
BroadcastCapacity == 100        \* broadcast::channel(100)
\* Instant::now().elapsed().as_secs(): the time elapsed since an Instant taken
\* in the same expression.
InstantNowElapsedSecs == 0

\* The scenarios of a WebSocket connection: how many snapshots the manager
\* publishes on the channel the connection subscribed to, how long the scenario
\* runs (ms), and whether the peer answers pings, closes, or stops reading.
\* NoClient is a server nobody connected to.  Lagging is a connection whose
\* task is not scheduled while the manager publishes; Throttled is a capture
\* stopped shortly after the client connected; Silent is a peer that goes quiet.
NoClient == [snapshots |-> 0, ms |-> 0, pongs |-> FALSE, closes |-> FALSE, drops |-> FALSE]
Lagging ==
    [snapshots |-> MaxPublished, ms |-> 0, pongs |-> FALSE, closes |-> FALSE, drops |-> FALSE]
Throttled ==
    [snapshots |-> ThrottledSnapshots, ms |-> ThrottledMs, pongs |-> FALSE, closes |-> TRUE,
     drops |-> TRUE]
Silent ==
    [snapshots |-> 0, ms |-> SilentMs, pongs |-> TRUE, closes |-> FALSE, drops |-> FALSE]
WsScenarios == {Lagging, Throttled, Silent}

ProtocolTags == {"TCP", "UDP", "DNS", "ICMP", "ARP", "IP", "Other"}

\* What parse_packet makes of a frame: Err (ok = FALSE), or the Packet, of which
\* the model keeps the protocol tag, the addresses (as their family, 4 or 6,
\* None when absent) and the ports (None when absent).
\* Packet { protocol: "Unknown", source_ip: None, .. } of parse_packet:
Unparsed ==
    [ok |-> TRUE, protocol |-> "Unknown", source_ip |-> None, destination_ip |-> None,
     source_port |-> None, destination_port |-> None]
\* Err(anyhow!("Failed to parse ..")) of any layer:
Failed == [Unparsed EXCEPT !.ok = FALSE]

\* PacketParser::parse_udp: protocol UDP, re-tagged DNS when a port is 53.
parse_udp(f, packet) ==
    IF f.len < f.offset + UdpHeaderLen
    THEN Failed
    ELSE [packet EXCEPT
             !.protocol = IF f.sport = DnsPort \/ f.dport = DnsPort THEN "DNS" ELSE "UDP",
             !.source_port = f.sport,
             !.destination_port = f.dport]

\* PacketParser::parse_tcp
parse_tcp(f, packet) ==
    IF f.len < f.offset + TcpHeaderLen
    THEN Failed
    ELSE [packet EXCEPT !.protocol = "TCP",
                        !.source_port = f.sport,
                        !.destination_port = f.dport]

\* PacketParser::parse_icmp
parse_icmp(f, packet) ==
    IF f.len < f.offset + IcmpHeaderLen
    THEN Failed
    ELSE [packet EXCEPT !.protocol = "ICMP"]

\* PacketParser::parse_transport_protocol
parse_transport_protocol(f, packet) ==
    CASE f.ipproto = "Tcp" -> parse_tcp(f, packet)
      [] f.ipproto = "Udp" -> parse_udp(f, packet)
      [] f.ipproto = "Icmp" -> parse_icmp(f, packet)
      [] OTHER -> [packet EXCEPT !.protocol = "IP"]

\* PacketParser::parse_ipv4
parse_ipv4(f, packet) ==
    IF f.len < EthernetHeaderLen + Ipv4HeaderLen
    THEN Failed
    ELSE parse_transport_protocol(
             [len |-> f.len, offset |-> EthernetHeaderLen + Ipv4HeaderLen,
              ipproto |-> f.ipproto, sport |-> f.sport, dport |-> f.dport],
             [packet EXCEPT !.source_ip = 4, !.destination_ip = 4])

\* PacketParser::parse_ipv6
parse_ipv6(f, packet) ==
    IF f.len < EthernetHeaderLen + Ipv6HeaderLen
    THEN Failed
    ELSE parse_transport_protocol(
             [len |-> f.len, offset |-> EthernetHeaderLen + Ipv6HeaderLen,
              ipproto |-> f.ipproto, sport |-> f.sport, dport |-> f.dport],
             [packet EXCEPT !.source_ip = 6, !.destination_ip = 6])

parse_arp_addressed(f, packet) ==
    IF f.len < EthernetHeaderLen + ArpPacketLen
    THEN Failed
    ELSE [packet EXCEPT !.protocol = "ARP", !.source_ip = 4, !.destination_ip = 4]

\* PacketParser::parse_arp
parse_arp(f, packet) ==
    IF f.len < EthernetHeaderLen + ArpPacketLen
    THEN Failed
    ELSE [packet EXCEPT !.protocol = "ARP"]

\* PacketParser::parse_packet: Err when a layer is too short for its header.
parse_packet(f) ==
    IF f.len < EthernetHeaderLen
    THEN Failed
    ELSE CASE f.ethertype = "Ipv4" -> parse_ipv4(f, Unparsed)
           [] f.ethertype = "Ipv6" -> parse_ipv6(f, Unparsed)
           [] f.ethertype = "Arp" -> parse_arp(f, Unparsed)
           [] OTHER -> [Unparsed EXCEPT !.protocol = "Other"]

\* No result yet.
NotParsed == [Failed EXCEPT !.protocol = "not decoded"]

\* CaptureManager::generate_info
generate_info(packet) ==
    CASE packet.protocol = "TCP" ->
             IF packet.source_port # None /\ packet.destination_port # None
             THEN IF packet.destination_port = 80 \/ packet.destination_port = 8080
                  THEN "HTTP Request"
                  ELSE IF packet.source_port = 80 \/ packet.source_port = 8080
                  THEN "HTTP Response"
                  ELSE IF packet.destination_port = 443 \/ packet.source_port = 443
                  THEN "HTTPS Traffic"
                  ELSE "TCP Segment"
             ELSE "TCP Segment"
      [] packet.protocol = "UDP" -> "UDP Datagram"
      [] packet.protocol = "ICMP" -> "ICMP Message"
      [] packet.protocol = "DNS" -> "DNS Query/Response"
      [] packet.protocol = "ARP" -> "ARP Request/Reply"
      [] packet.protocol = "IP" -> "IP Packet"
      [] packet.protocol = "Other" -> "Other Packet"
      [] OTHER -> "Unknown Packet"

\* The frames given to the parser on its own: every EtherType and next-level
\* protocol the parser tells apart and one it does not, lengths that cut a frame
\* inside each header, and the ports the parser and generate_info look for.
ParserFrames ==
    [len : {10, 30, 40, 60, 80},
     ethertype : {"Ipv4", "Ipv6", "Arp", "Vlan"},
     ipproto : {"Tcp", "Udp", "Icmp", "Igmp"},
     sport : {DnsPort, 80, 443, 40000},
     dport : {DnsPort, 443, 8080, 34567}]

\* ------------------------------------------------------------------- stats
\* CaptureStats::default()
DefaultStats ==
    [total_packets |-> 0, total_bytes |-> 0,
     protocols |-> [p \in ProtocolTags |-> 0],
     errors |-> 0, start_time |-> None, end_time |-> None]

RECURSIVE SumOver(_, _)
SumOver(f, S) ==
    IF S = {} THEN 0
    ELSE LET x == CHOOSE y \in S : TRUE IN f[x] + SumOver(f, S \ {x})

ProtocolSum(st) == SumOver(st.protocols, ProtocolTags)

\* ------------------------------------------------------------------- state
VARIABLES
    env,            \* the environment of this run, fixed at start
    clock,          \* wall clock, milliseconds
    \* CaptureManager fields
    config,         \* AppConfig: interface, buffer_size
    is_running,     \* AtomicBool
    stats,          \* self.stats
    shared_stats,   \* Option<Arc<Mutex<CaptureStats>>>: 0 = None, else the session owning it
    stats_tx,       \* identity of the current broadcast channel
    capture_task,   \* Option<JoinHandle>: 0 = None, else the session of the task
    \* shared with the tasks
    packets,        \* the DashMap, as the set of stored packets
    NEXT_ID,        \* static NEXT_ID of generate_id
    STOP_REQUESTED, \* static AtomicBool
    STOP_SIGNAL,    \* static Mutex<Option<Sender>>: 0 = None, else the session of the channel
    sharedStats,    \* session -> value inside the session's stats mutex
    statsGuard,     \* 0, or the session whose stats mutex a get_stats in flight holds
    \* per session tasks
    nSessions,      \* sessions created so far
    task,           \* session -> position of its run_capture task
    thread,         \* session -> position of its blocking capture thread
    stopChan,       \* session -> messages queued in its stop channel
    chan,           \* session -> frames queued in its packet channel
    proc,           \* session -> position of its processor task
    cur,            \* session -> packet the processor holds
    packet_ids,     \* session -> ids enforce_buffer_limit collected, oldest first
    to_remove,      \* session -> number of ids enforce_buffer_limit is to remove
    procConfig,     \* session -> the processor's clone of config
    procTx,         \* session -> the processor's clone of stats_tx
    handleFilter,   \* session -> the filter in effect on its capture handle
    \* callers
    stopPc,         \* position of the stop_capture call in flight, "idle" if none
    ret,            \* the last start/stop call that returned and its result
    queryResult,    \* the value the last get_stats returned
    framesRead,     \* frames delivered by the capture handles so far
    faults,         \* start() calls that failed to open the device so far
    \* history
    issuedLog,      \* ids generate_id has returned, in order
    processed,      \* packets inserted since the store was last cleared
    lastInserted,   \* id of the packet inserted last, 0 if none
    inserted,       \* session -> count and bytes of the packets its processor inserted
    decodeErrors,   \* session -> frames that failed to decode
    lastSent,       \* the last snapshot sent on a broadcast channel, and when
    sessionOpen,    \* a start() returned Ok and no stop() has returned since
    errorRun,       \* session -> errors other than timeouts next_packet() returned in a row
    \* one WebSocket connection (ws_index) and the channel it subscribed to
    wsEnv,          \* the scenario of the connection, fixed at connect
    wsNow,          \* time since the connection was made, milliseconds
    published,      \* snapshots sent on the subscribed channel so far
    txDropped,      \* every Sender of the subscribed channel has been dropped
    final,          \* number of the snapshot stop_capture sent, 0 if none yet
    stats_rx,       \* snapshots the Receiver has passed (received or skipped)
    last_stats_update, \* Instant of the last stats message, ms
    buffer_stats,   \* 0 = None, else the number of the latest snapshot buffered
    updates_received,
    updates_sent,
    delivered,      \* number of the snapshot of the last stats message sent, 0 if none
    wsTask,         \* "none", "open", or "ended" once the select! has returned
    wsExit,         \* what ended the connection task
    last_heartbeat, \* the AtomicI64, seconds
    nextBeat,       \* time of the next tick of the heartbeat interval, ms
    lastHeard,      \* time the peer's last pong arrived, ms
    \* the interface cache and the calls of get_interface_info in flight
    cacheNow,       \* time, seconds
    cached_interfaces, \* None, or the Instant the cached list was stored at
    callPc,         \* caller -> position of its get_interface_info call
    served,         \* caller -> time of the store whose list it was last given from the cache
    lastFetch,      \* time the provider was last invoked, None if never
    \* one call of PacketParser::parse_packet and of generate_info on its result
    frame,          \* the frame given to the parser
    decoded,         \* NotParsed, or what parse_packet returned
    info            \* the summary info string of the packet, "" when there is none

mgrVars == <<config, is_running, stats, shared_stats, stats_tx, capture_task>>
globVars == <<packets, NEXT_ID, STOP_REQUESTED, STOP_SIGNAL>>
taskVars == <<nSessions, task, thread, stopChan, procConfig, procTx, handleFilter>>
procVars == <<chan, proc, cur, packet_ids, to_remove, sharedStats>>
histVars == <<issuedLog, processed, lastInserted, inserted, decodeErrors>>
coreVars == <<env, clock, mgrVars, globVars, taskVars, procVars, statsGuard,
              stopPc, ret, queryResult, framesRead, faults, histVars, lastSent, sessionOpen,
              errorRun>>
chanVars == <<published, txDropped, final>>
rxVars == <<stats_rx, last_stats_update, buffer_stats, updates_received, updates_sent,
            delivered>>
beatVars == <<last_heartbeat, nextBeat, lastHeard>>
wsVars == <<wsEnv, wsNow, chanVars, rxVars, wsTask, wsExit, beatVars>>
cacheVars == <<cacheNow, cached_interfaces, callPc, served, lastFetch>>
parserVars == <<frame, decoded, info>>
adapterVars == <<wsVars, cacheVars, parserVars>>
vars == <<coreVars, adapterVars>>

windows == env.windows      \* cfg(target_os = "windows")
InitBufferSizes == {1}
SetterBufferSizes == {1}

NoPacket == [id |-> 0, timestamp |-> None, length |-> 0, protocol |-> "Unknown", session |-> 0]
NoSnapshot == [tx |-> None, stats |-> DefaultStats, from |-> "none", at |-> None]

\* CaptureManager::new
ManagerInit ==
    /\ env \in Environments
    /\ clock = 0
    /\ config \in [interface : env.interfaces, buffer_size : InitBufferSizes,
                 filter : env.filters, promiscuous : {FALSE}]
    /\ is_running = FALSE
    /\ stats = DefaultStats
    /\ shared_stats = 0
    /\ stats_tx = 0
    /\ capture_task = 0
    /\ packets = {}
    /\ NEXT_ID = 1
    /\ STOP_REQUESTED = FALSE
    /\ STOP_SIGNAL = 0
    /\ sharedStats = [s \in Sessions |-> DefaultStats]
    /\ statsGuard = 0
    /\ nSessions = 0
    /\ task = [s \in Sessions |-> "none"]
    /\ thread = [s \in Sessions |-> "none"]
    /\ stopChan = [s \in Sessions |-> 0]
    /\ chan = [s \in Sessions |-> <<>>]
    /\ proc = [s \in Sessions |-> "none"]
    /\ cur = [s \in Sessions |-> NoPacket]
    /\ packet_ids = [s \in Sessions |-> <<>>]
    /\ to_remove = [s \in Sessions |-> 0]
    /\ procConfig = [s \in Sessions |->
                        [interface |-> NoInterface, buffer_size |-> 0, filter |-> NoFilter,
                         promiscuous |-> FALSE]]
    /\ procTx = [s \in Sessions |-> None]
    /\ handleFilter = [s \in Sessions |-> NoFilter]
    /\ stopPc = "idle"
    /\ ret = [op |-> "none", result |-> "none"]
    /\ queryResult = DefaultStats
    /\ framesRead = 0
    /\ faults = 0
    /\ issuedLog = <<>>
    /\ processed = {}
    /\ lastInserted = 0
    /\ inserted = [s \in Sessions |-> [count |-> 0, bytes |-> 0]]
    /\ decodeErrors = [s \in Sessions |-> 0]
    /\ lastSent = NoSnapshot
    /\ sessionOpen = FALSE
    /\ errorRun = [s \in Sessions |-> 0]

\* ws_index up to the select!: the connection of a client in the given
\* scenario, subscribed, with last_heartbeat and last_stats_update initialised.
Connected(scenario) ==
    /\ wsEnv = scenario
    /\ wsNow = 0
    /\ published = 0
    /\ txDropped = FALSE
    /\ final = 0
    /\ stats_rx = 0
    /\ last_stats_update = 0
    /\ buffer_stats = 0
    /\ updates_received = 0
    /\ updates_sent = 0
    /\ delivered = 0
    /\ wsTask = IF scenario = NoClient THEN "none" ELSE "open"
    /\ wsExit = "none"
    /\ last_heartbeat = InstantNowElapsedSecs
    /\ nextBeat = 0
    /\ lastHeard = 0

\* CaptureManager::new: cached_interfaces: RwLock::new(None).
CacheEmpty ==
    /\ cacheNow = 0
    /\ cached_interfaces = None
    /\ callPc = [c \in Callers |-> "idle"]
    /\ served = [c \in Callers |-> None]
    /\ lastFetch = None

\* A frame the parser has not been given yet.
Unread(f) ==
    /\ frame = f
    /\ decoded = NotParsed
    /\ info = ""

Init == ManagerInit /\ Connected(NoClient) /\ CacheEmpty /\ Unread(TcpFrame)

\* The manager's RwLock: a writer needs no stop_capture in flight (it holds the
\* write lock across its awaits) and no get_stats in flight (a reader).
WriteLockFree == stopPc = "idle" /\ statsGuard = 0
ReadLockFree == stopPc = "idle"

\* CaptureManager::get_status
get_status == is_running

\* broadcast::Sender::send of a snapshot on channel tx
Publish(tx, snapshot, who) ==
    lastSent' = [tx |-> tx, stats |-> snapshot, from |-> who, at |-> clock]

\* ------------------------------------------------------------ start_capture
\* An early return that comes after the reset of the store instead of before it.
RejectedAfterClear(op, result) ==
    /\ ret' = [op |-> op, result |-> result]
    /\ packets' = {}
    /\ UNCHANGED <<mgrVars, NEXT_ID, STOP_REQUESTED, STOP_SIGNAL>>

\* An early return with an error: the manager and the globals are as before.
Rejected(op, result) ==
    /\ ret' = [op |-> op, result |-> result]
    /\ UNCHANGED <<mgrVars, globVars>>

\* active_capture.filter(..) when a filter is configured: the handle takes the
\* filter when pcap compiles it; when it does not, the error is logged and the
\* handle stays unfiltered.
apply_filter(filter) == IF filter \in ValidFilters THEN filter ELSE NoFilter

\* start_capture past its checks: the reset of the store, the stats, the
\* broadcaster and the stop flag, then the open of the device and, when it
\* succeeds, the spawn of the session's capture task and processor task.
\* open is the outcome of Capture::from_device(..).open(), and, on Windows, of
\* the fallback WindowsCaptureHelper::start_capture as well.
Opened(open) ==
    LET fresh == [DefaultStats EXCEPT !.start_time = clock]
        s == nSessions + 1
    IN  /\ packets' = {}
        /\ processed' = {}
        /\ stats' = fresh
        /\ stats_tx' = stats_tx + 1
        /\ STOP_REQUESTED' = FALSE
        /\ UNCHANGED <<config, NEXT_ID, STOP_SIGNAL>>
        /\ IF open = "ok"
           THEN /\ nSessions < env.sessions
                /\ nSessions' = s
                /\ is_running' = TRUE
                /\ sharedStats' = [sharedStats EXCEPT ![s] = fresh]
                /\ shared_stats' = s
                /\ capture_task' = s
                /\ task' = [task EXCEPT ![s] = "spawned"]
                /\ proc' = [proc EXCEPT ![s] = "recv"]
                /\ procConfig' = [procConfig EXCEPT ![s] = config]
                /\ procTx' = [procTx EXCEPT ![s] = stats_tx + 1]
                /\ handleFilter' = [handleFilter EXCEPT ![s] = apply_filter(config.filter)]
                /\ ret' = [op |-> "start", result |-> "Ok"]
                /\ sessionOpen' = TRUE
                /\ UNCHANGED <<thread, stopChan, chan, cur, packet_ids, to_remove, faults>>
           ELSE /\ faults < env.faults
                /\ faults' = faults + 1
                /\ is_running' = windows
                /\ ret' = [op |-> "start", result |-> "CaptureError"]
                /\ UNCHANGED <<shared_stats, capture_task, taskVars, procVars, sessionOpen>>

\* A start that falls back to a default interface when none is configured.
interface_defaulted == TRUE

\* start_capture: self.config.interface is Some(..)
interface_selected == config.interface # NoInterface

\* CaptureManager::start_capture, under the write lock of the manager.
start_capture(open) ==
    /\ WriteLockFree
    /\ IF is_running
       THEN /\ env.rejected
            /\ Rejected("start", "AlreadyRunning")
            /\ UNCHANGED <<taskVars, procVars, sessionOpen, faults, processed>>
       ELSE IF ~interface_selected
       THEN /\ env.rejected
            /\ Rejected("start", "NoInterface")
            /\ UNCHANGED <<taskVars, procVars, sessionOpen, faults, processed>>
       ELSE Opened(open)
    /\ UNCHANGED <<adapterVars, errorRun, env, clock, statsGuard, stopPc, queryResult, framesRead,
                   issuedLog, lastInserted, inserted, decodeErrors, lastSent>>

\* ------------------------------------------------------------- stop_capture
\* stop_capture up to its first shared write after the signal: the running
\* check, is_running := false, STOP_SIGNAL.take() and sender.send(()).
StopBegin ==
    /\ WriteLockFree
    /\ IF ~is_running
       THEN /\ env.rejected
            /\ Rejected("stop", "NotRunning")
            /\ UNCHANGED <<stopChan, stopPc>>
       ELSE /\ is_running' = FALSE
            /\ IF STOP_SIGNAL # 0
               THEN /\ stopChan' = [stopChan EXCEPT ![STOP_SIGNAL] = 1]
                    /\ STOP_SIGNAL' = 0
               ELSE UNCHANGED <<stopChan, STOP_SIGNAL>>
            /\ stopPc' = "sent"
            /\ UNCHANGED <<config, stats, shared_stats, stats_tx, capture_task,
                           packets, NEXT_ID, STOP_REQUESTED, ret>>
    /\ UNCHANGED <<adapterVars, errorRun, env, faults, clock, nSessions, task, thread, procConfig, procTx, handleFilter, procVars,
                   statsGuard, queryResult, framesRead, histVars, lastSent, sessionOpen>>

\* stop_capture: STOP_REQUESTED.store(true)
StopSetFlag ==
    /\ stopPc = "sent"
    /\ STOP_REQUESTED' = TRUE
    /\ stopPc' = "join"
    /\ UNCHANGED <<adapterVars, errorRun, env, faults, clock, mgrVars, packets, NEXT_ID, STOP_SIGNAL, taskVars,
                   procVars, statsGuard, ret, queryResult, framesRead, histVars, lastSent,
                   sessionOpen>>

\* A join that waits for the task without a timeout.
JoinWaitsForTask(timedOut) ==
    IF capture_task = 0 THEN TRUE ELSE task[capture_task] = "done"

\* tokio::time::timeout(5 s, task): there is no task, it completed, or the
\* timeout elapsed (the task was not scheduled for 5 s).
JoinReturns(timedOut) ==
    IF capture_task = 0 THEN TRUE
    ELSE IF task[capture_task] = "done" THEN TRUE
    ELSE timedOut /\ env.stalls

\* A final snapshot that is sent as the stats stand, without an end time.
final_stats_unstamped == stats

\* stop_capture: self.stats with end_time = Some(Utc::now()) when a start time
\* is recorded (the rates computed with it are not modelled).
final_stats ==
    IF stats.start_time # None THEN [stats EXCEPT !.end_time = clock] ELSE stats

\* stop_capture from the end of the join (the task completed, or the 5 s
\* timeout elapsed) to its return: end_time, the final send, the new channel.
StopFinish(timedOut) ==
    /\ stopPc = "join"
    /\ JoinReturns(timedOut)
    /\ stats' = final_stats
    /\ Publish(stats_tx, final_stats, "stop")
    /\ capture_task' = 0
    /\ stats_tx' = stats_tx + 1
    /\ stopPc' = "idle"
    /\ ret' = [op |-> "stop", result |-> "Ok"]
    /\ sessionOpen' = FALSE
    /\ UNCHANGED <<adapterVars, errorRun, env, faults, clock, config, is_running, shared_stats, globVars, taskVars,
                   procVars, statsGuard, queryResult, framesRead, histVars>>

\* The 10 s timeout of the stop handler (handlers/capture.rs) elapses while the
\* stop_capture it polls is pending in its join: the handler waited for the
\* write lock and the capture task has not completed.  The future is dropped
\* where it stands, with the write guard and the JoinHandle it had taken, and
\* the handler answers.
StopCancelled ==
    /\ env.overruns
    /\ stopPc = "join"
    /\ capture_task # 0
    /\ task[capture_task] # "done"
    /\ capture_task' = 0
    /\ stopPc' = "idle"
    /\ ret' = [op |-> "stop", result |-> "Timeout"]
    /\ UNCHANGED <<adapterVars, errorRun, env, faults, clock, config, is_running, stats, shared_stats,
                   stats_tx, globVars, taskVars, procVars, statsGuard, queryResult,
                   framesRead, histVars, lastSent, sessionOpen>>

\* The status code the start_capture and stop_capture handlers answer with for
\* a call that returned r: Ok(Ok(_)) is HttpResponse::Ok, Ok(Err(e)) and the
\* elapsed timeout are both HttpResponse::InternalServerError.
HttpStatus(r) == IF r.result = "Ok" THEN 200 ELSE 500

\* ------------------------------------------------------------------ setters
\* The interface names a client sets: update_capture_settings passes on any name.
SetterInterfaces == IF env.tuning THEN {"eth0", "eth1"} ELSE {"eth0"}

\* CaptureManager::set_interface
set_interface(name) ==
    /\ env.settings
    /\ name \in SetterInterfaces
    /\ WriteLockFree
    /\ config' = [config EXCEPT !.interface = name]
    /\ UNCHANGED <<adapterVars, errorRun, env, faults, clock, is_running, stats, shared_stats, stats_tx, capture_task,
                   globVars, taskVars, procVars, statsGuard, stopPc, ret, queryResult,
                   framesRead, histVars, lastSent, sessionOpen>>

set_buffer_size_live(n) ==
    /\ env.settings
    /\ WriteLockFree
    /\ config' = [config EXCEPT !.buffer_size = IF n > MinBufferSize THEN n ELSE MinBufferSize]
    /\ procConfig' = [s \in Sessions |->
                        IF proc[s] \in {"none", "done"} THEN procConfig[s]
                        ELSE [procConfig[s] EXCEPT !.buffer_size = config'.buffer_size]]
    /\ UNCHANGED <<adapterVars, errorRun, env, faults, clock, is_running, stats, shared_stats, stats_tx, capture_task,
                   globVars, nSessions, task, thread, stopChan, procTx, handleFilter,
                   procVars, statsGuard, stopPc, ret, queryResult,
                   framesRead, histVars, lastSent, sessionOpen>>

\* CaptureManager::set_buffer_size
set_buffer_size(n) ==
    /\ env.settings
    /\ WriteLockFree
    /\ config' = [config EXCEPT !.buffer_size = IF n > MinBufferSize THEN n ELSE MinBufferSize]
    /\ UNCHANGED <<adapterVars, errorRun, env, faults, clock, is_running, stats, shared_stats, stats_tx, capture_task,
                   globVars, taskVars, procVars, statsGuard, stopPc, ret, queryResult,
                   framesRead, histVars, lastSent, sessionOpen>>

\* CaptureManager::set_filter
set_filter(filter) ==
    /\ env.tuning
    /\ WriteLockFree
    /\ config' = [config EXCEPT !.filter = filter]
    /\ UNCHANGED <<adapterVars, errorRun, env, faults, clock, is_running, stats, shared_stats, stats_tx, capture_task,
                   globVars, taskVars, procVars, statsGuard, stopPc, ret, queryResult,
                   framesRead, histVars, lastSent, sessionOpen>>

\* CaptureManager::set_promiscuous
set_promiscuous(promiscuous) ==
    /\ env.tuning
    /\ WriteLockFree
    /\ config' = [config EXCEPT !.promiscuous = promiscuous]
    /\ UNCHANGED <<adapterVars, errorRun, env, faults, clock, is_running, stats, shared_stats, stats_tx, capture_task,
                   globVars, taskVars, procVars, statsGuard, stopPc, ret, queryResult,
                   framesRead, histVars, lastSent, sessionOpen>>

\* ---------------------------------------------------------------- get_stats
\* get_stats up to the clone: with no shared stats it returns self.stats; else
\* try_lock on the shared mutex succeeds and the guard is held for the clone.
GetStatsLock ==
    /\ env.queries
    /\ ReadLockFree
    /\ statsGuard = 0
    /\ IF shared_stats = 0
       THEN /\ queryResult' = stats
            /\ UNCHANGED statsGuard
       ELSE /\ statsGuard' = shared_stats
            /\ UNCHANGED queryResult
    /\ UNCHANGED <<adapterVars, errorRun, env, faults, clock, mgrVars, globVars, taskVars, procVars, stopPc, ret,
                   framesRead, histVars, lastSent, sessionOpen>>

\* get_stats: stats.clone() under the guard, then the guard is dropped.
GetStatsClone ==
    /\ statsGuard # 0
    /\ queryResult' = sharedStats[statsGuard]
    /\ statsGuard' = 0
    /\ UNCHANGED <<adapterVars, errorRun, env, faults, clock, mgrVars, globVars, taskVars, procVars, stopPc, ret,
                   framesRead, histVars, lastSent, sessionOpen>>

\* get_stats when try_lock fails (another get_stats holds the guard, or the
\* processor is inside its locked update): it returns self.stats.
GetStatsContended ==
    /\ env.queries
    /\ ReadLockFree
    /\ shared_stats # 0
    /\ (statsGuard = shared_stats \/ proc[shared_stats] = "insert")
    /\ queryResult' = stats
    /\ UNCHANGED <<adapterVars, errorRun, env, faults, clock, mgrVars, globVars, taskVars, procVars, statsGuard,
                   stopPc, ret, framesRead, histVars, lastSent, sessionOpen>>

\* ------------------------------------------------------------- run_capture
\* run_capture up to the select!: the stop channel, STOP_SIGNAL := Some(stop_tx)
\* (dropping the sender stored there), spawn_blocking of the capture loop, whose
\* first test of STOP_REQUESTED either ends it or lets it enter next_packet().
TaskStart(s) ==
    /\ task[s] = "spawned"
    /\ STOP_SIGNAL' = s
    /\ thread' = [thread EXCEPT ![s] = IF STOP_REQUESTED THEN "done" ELSE "next"]
    /\ task' = [task EXCEPT ![s] = "select"]
    /\ UNCHANGED <<adapterVars, errorRun, env, faults, clock, mgrVars, packets, NEXT_ID, STOP_REQUESTED, nSessions,
                   stopChan, procConfig, procTx, handleFilter, procVars, statsGuard, stopPc, ret,
                   queryResult, framesRead, histVars, lastSent, sessionOpen>>

\* stop_monitor_task: stop_rx.recv() returns Some(()), STOP_REQUESTED := true,
\* the select! completes and run_capture ends: STOP_SIGNAL := None,
\* STOP_REQUESTED := false.  The blocking capture thread is not joined.
TaskStopSignal(s) ==
    /\ task[s] = "select"
    /\ stopChan[s] = 1
    /\ stopChan' = [stopChan EXCEPT ![s] = 0]
    /\ STOP_SIGNAL' = 0
    /\ STOP_REQUESTED' = FALSE
    /\ task' = [task EXCEPT ![s] = "done"]
    /\ UNCHANGED <<adapterVars, errorRun, env, faults, clock, mgrVars, packets, NEXT_ID, nSessions, thread,
                   procConfig, procTx, handleFilter, procVars, statsGuard, stopPc, ret,
                   queryResult, framesRead, histVars, lastSent, sessionOpen>>

\* The select! completes without a stop message (the blocking task returned,
\* or stop_rx.recv() returned None because the sender was dropped), and the
\* rest of run_capture: STOP_SIGNAL := None, STOP_REQUESTED := false.
TaskSelectDone(s) ==
    /\ task[s] = "select"
    /\ stopChan[s] = 0
    /\ (thread[s] = "done" \/ STOP_SIGNAL # s)
    /\ STOP_SIGNAL' = 0
    /\ STOP_REQUESTED' = FALSE
    /\ task' = [task EXCEPT ![s] = "done"]
    /\ UNCHANGED <<adapterVars, errorRun, env, faults, clock, mgrVars, packets, NEXT_ID, nSessions, thread, stopChan,
                   procConfig, procTx, handleFilter, procVars, statsGuard, stopPc, ret, queryResult,
                   framesRead, histVars, lastSent, sessionOpen>>

\* ----------------------------------------------- the blocking capture loop
\* The test at the top of the loop: STOP_REQUESTED.load() ends the loop.
LoopTop == IF STOP_REQUESTED THEN "done" ELSE "next"

\* The time that passed since the last frame when next_packet() returns one:
\* none that Utc::now() shows for the frames of a burst.
Elapsed == IF env.burst /\ framesRead > 0 THEN 0 ELSE TickMs

\* next_packet() returns Ok: the timestamp, blocking_send on the packet
\* channel, which is Err and ends the loop when the receiver is gone, and the
\* test at the top of the loop.
NextPacketOk(s, f) ==
    /\ thread[s] = "next"
    /\ framesRead < env.frames
    /\ Len(chan[s]) < ChannelCapacity
    /\ framesRead' = framesRead + 1
    /\ errorRun' = [errorRun EXCEPT ![s] = 0]
    /\ clock' = clock + Elapsed
    /\ IF proc[s] = "done"
       THEN /\ thread' = [thread EXCEPT ![s] = "done"]
            /\ UNCHANGED chan
       ELSE /\ chan' = [chan EXCEPT ![s] =
                          Append(@, [frame |-> f, timestamp |-> clock + Elapsed])]
            /\ thread' = [thread EXCEPT ![s] = LoopTop]
    /\ UNCHANGED <<adapterVars, env, faults, mgrVars, globVars, nSessions, task, stopChan,
                   procConfig, procTx, handleFilter, proc, cur, packet_ids, to_remove, sharedStats, statsGuard,
                   stopPc, ret,
                   queryResult, histVars, lastSent, sessionOpen>>

\* next_packet() returns Err: "no more packets" ends the loop, a timeout and
\* any other error go back to the top of the loop.
NextPacketErr(s, e) ==
    /\ thread[s] = "next"
    /\ e = "other" => errorRun[s] < ErrorRunBound
    /\ thread' = [thread EXCEPT ![s] = IF e = "no more packets" THEN "done" ELSE LoopTop]
    /\ errorRun' = [errorRun EXCEPT ![s] = IF e = "other" THEN @ + 1 ELSE @]
    /\ UNCHANGED <<adapterVars, env, faults, clock, mgrVars, globVars, nSessions, task, stopChan,
                   procConfig, procTx, handleFilter, procVars, statsGuard, stopPc, ret, queryResult,
                   framesRead, histVars, lastSent, sessionOpen>>

\* ------------------------------------------------------ the processor task
\* An id taken from the size of the store, which generate_id is handed, instead
\* of from the counter.
generate_id_from_len == Cardinality(packets) + 1

\* generate_id: NEXT_ID.fetch_add(1)
generate_id == NEXT_ID

\* An update whose protocols.entry(..) inserts a new protocol with count 0 and
\* increments only the ones already present.
UpdateStatsFirstUncounted(st, protocol, len) ==
    [st EXCEPT !.total_packets = @ + 1,
               !.total_bytes = @ + len,
               !.protocols = [@ EXCEPT ![protocol] = IF @ = 0 THEN 0 ELSE @ + 1]]

\* The locked update of the processor on a decoded packet of len bytes.
UpdateStats(st, protocol, len) ==
    [st EXCEPT !.total_packets = @ + 1,
               !.total_bytes = @ + len,
               !.protocols = [@ EXCEPT ![protocol] = @ + 1]]

\* The processor's error arm: stats.errors += 1 under the lock.
CountError(st) == [st EXCEPT !.errors = @ + 1]

\* stats.try_lock() of the processor of session s
TryLock(s) == statsGuard # s

\* rx.recv() returns an item; parse_packet; on Ok the timestamp and the id,
\* on Err the errors counter under try_lock.
ProcRecv(s) ==
    /\ proc[s] = "recv"
    /\ chan[s] # <<>>
    /\ LET item == Head(chan[s])
           parsed == parse_packet(item.frame)
       IN  /\ chan' = [chan EXCEPT ![s] = Tail(@)]
           /\ IF parsed.ok
              THEN /\ cur' = [cur EXCEPT ![s] =
                         [id |-> generate_id, timestamp |-> item.timestamp,
                          length |-> item.frame.len, protocol |-> parsed.protocol,
                          session |-> s]]
                   /\ NEXT_ID' = NEXT_ID + 1
                   /\ issuedLog' = Append(issuedLog, generate_id)
                   /\ proc' = [proc EXCEPT ![s] = "insert"]
                   /\ UNCHANGED <<sharedStats, decodeErrors>>
              ELSE /\ sharedStats' = IF TryLock(s)
                                     THEN [sharedStats EXCEPT ![s] = CountError(@)]
                                     ELSE sharedStats
                   /\ decodeErrors' = [decodeErrors EXCEPT ![s] = @ + 1]
                   /\ UNCHANGED <<cur, NEXT_ID, issuedLog, proc>>
    /\ UNCHANGED <<adapterVars, errorRun, env, faults, clock, mgrVars, packets, STOP_REQUESTED, STOP_SIGNAL, taskVars,
                   packet_ids, to_remove, statsGuard, stopPc, ret, queryResult, framesRead,
                   processed,
                   lastInserted, inserted, lastSent, sessionOpen>>

\* The orders a sort by timestamp (oldest first) may leave the packets of the
\* store in: packets of equal timestamp keep the order the map iterated them in,
\* which is any order.
SortedByTimestamp(store) ==
    {f \in [1..Cardinality(store) -> store] :
        /\ \A i, j \in DOMAIN f : i < j => f[i] # f[j] /\ f[i].timestamp <= f[j].timestamp}

\* packets.insert(id, packet); under try_lock the stats update and the send of
\* the snapshot on the processor's clone of the broadcaster; then
\* enforce_buffer_limit up to the sorted vector of ids: the length check, the
\* iteration of the map and the sort.
ProcInsert(s) ==
    /\ proc[s] = "insert"
    /\ LET store == {p \in packets : p.id # cur[s].id} \cup {cur[s]}
       IN  /\ packets' = store
           /\ IF Cardinality(store) <= procConfig[s].buffer_size
              THEN /\ proc' = [proc EXCEPT ![s] = "recv"]
                   /\ UNCHANGED packet_ids
              ELSE \E f \in SortedByTimestamp(store) :
                      /\ packet_ids' = [packet_ids EXCEPT ![s] = [i \in DOMAIN f |-> f[i].id]]
                      /\ proc' = [proc EXCEPT ![s] = "count"]
    /\ processed' = processed \cup {cur[s]}
    /\ lastInserted' = cur[s].id
    /\ inserted' = [inserted EXCEPT ![s] =
          [count |-> @.count + 1, bytes |-> @.bytes + cur[s].length]]
    /\ IF TryLock(s)
       THEN LET updated == UpdateStats(sharedStats[s], cur[s].protocol, cur[s].length)
            IN  /\ sharedStats' = [sharedStats EXCEPT ![s] = updated]
                /\ Publish(procTx[s], updated, "processor")
       ELSE UNCHANGED <<sharedStats, lastSent>>
    /\ UNCHANGED <<adapterVars, errorRun, env, faults, clock, mgrVars, NEXT_ID, STOP_REQUESTED, STOP_SIGNAL, taskVars,
                   chan, cur, to_remove, statsGuard, stopPc, ret, queryResult, framesRead,
                   issuedLog, decodeErrors, sessionOpen>>

\* a.saturating_sub(b)
saturating_sub(a, b) == IF a > b THEN a - b ELSE 0

\* enforce_buffer_limit: to_remove = packets.len().saturating_sub(buffer_size)
ProcCount(s) ==
    /\ proc[s] = "count"
    /\ to_remove' = [to_remove EXCEPT ![s] =
          saturating_sub(Cardinality(packets), procConfig[s].buffer_size)]
    /\ proc' = [proc EXCEPT ![s] = "remove"]
    /\ UNCHANGED <<adapterVars, errorRun, env, faults, clock, mgrVars, globVars, taskVars, chan, cur, packet_ids,
                   sharedStats, statsGuard, stopPc, ret, queryResult, framesRead, histVars,
                   lastSent, sessionOpen>>

\* enforce_buffer_limit: the loop of packets.remove(&id) over the first
\* to_remove collected ids.
ProcRemove(s) ==
    /\ proc[s] = "remove"
    /\ LET gone == {packet_ids[s][i] : i \in {k \in DOMAIN packet_ids[s] : k <= to_remove[s]}}
       IN  packets' = {p \in packets : p.id \notin gone}
    /\ packet_ids' = [packet_ids EXCEPT ![s] = <<>>]
    /\ to_remove' = [to_remove EXCEPT ![s] = 0]
    /\ proc' = [proc EXCEPT ![s] = "recv"]
    /\ UNCHANGED <<adapterVars, errorRun, env, faults, clock, mgrVars, NEXT_ID, STOP_REQUESTED, STOP_SIGNAL, taskVars,
                   chan, cur, sharedStats, statsGuard, stopPc, ret, queryResult,
                   framesRead, histVars, lastSent, sessionOpen>>

\* A processor that leaves as soon as its channel is empty.
ProcExitWhenEmpty(s) ==
    /\ proc[s] = "recv"
    /\ chan[s] = <<>>
    /\ proc' = [proc EXCEPT ![s] = "done"]
    /\ UNCHANGED <<adapterVars, errorRun, env, faults, clock, mgrVars, globVars, taskVars, chan, cur, packet_ids,
                   to_remove, sharedStats,
                   statsGuard, stopPc, ret, queryResult, framesRead, histVars, lastSent,
                   sessionOpen>>

\* rx.recv() returns None: the channel is empty and its sender is dropped.
ProcExit(s) ==
    /\ proc[s] = "recv"
    /\ chan[s] = <<>>
    /\ thread[s] = "done"
    /\ proc' = [proc EXCEPT ![s] = "done"]
    /\ UNCHANGED <<adapterVars, errorRun, env, faults, clock, mgrVars, globVars, taskVars, chan, cur, packet_ids,
                   to_remove, sharedStats,
                   statsGuard, stopPc, ret, queryResult, framesRead, histVars, lastSent,
                   sessionOpen>>

ManagerNext ==
    \/ \E open \in {"ok", "fail"} : start_capture(open)
    \/ StopBegin
    \/ StopSetFlag
    \/ \E timedOut \in BOOLEAN : StopFinish(timedOut)
    \/ \E name \in {"eth0", "eth1"} : set_interface(name)
    \/ \E n \in SetterBufferSizes : set_buffer_size(n)
    \/ GetStatsLock
    \/ GetStatsClone
    \/ GetStatsContended
    \/ \E s \in Sessions : TaskStart(s)
    \/ \E s \in Sessions : TaskStopSignal(s)
    \/ \E s \in Sessions : TaskSelectDone(s)
    \/ \E s \in Sessions : \E f \in env.kinds : NextPacketOk(s, f)
    \/ \E s \in Sessions : \E e \in env.errors : NextPacketErr(s, e)
    \/ \E s \in Sessions : ProcRecv(s)
    \/ \E s \in Sessions : ProcInsert(s)
    \/ \E s \in Sessions : ProcCount(s)
    \/ \E s \in Sessions : ProcRemove(s)
    \/ \E s \in Sessions : ProcExit(s)

\* The manager with the clients that change every setting and the handler
\* timeouts that cancel a call in flight.
Next ==
    \/ ManagerNext
    \/ \E filter \in ValidFilters : set_filter(filter)
    \/ set_promiscuous(TRUE)
    \/ StopCancelled

Spec == Init /\ [][Next]_vars

\* The runs in which a capture task may stay unscheduled, or its thread blocked
\* in next_packet(), for longer than the join timeout of stop_capture.  A
\* stop_capture in flight keeps running: the worker polls its future, its send
\* on the fresh stop channel completes at once, and its join is a
\* tokio::time::timeout whose timer fires after 5 s whatever the task does.
\* Nothing is assumed of the capture tasks, the threads or the processors.
StallInit == Init /\ env.stalls
StallSpec ==
    /\ StallInit
    /\ [][ManagerNext]_vars
    /\ WF_vars(StopSetFlag)
    /\ WF_vars(\E timedOut \in BOOLEAN : StopFinish(timedOut))

\* ------------------------------------------------- WebSocket connection task
\* stats_tx.send(stats) by the processor of the session, and by stop_capture
\* (sent = "stop"), which then replaces self.stats_tx: the last Sender of the
\* subscribed channel goes once the processor has ended.  A send never waits
\* for a receiver.
WsPublish(sent) ==
    /\ ~txDropped
    /\ published < wsEnv.snapshots
    /\ published' = published + 1
    /\ IF sent = "stop"
       THEN final' = published' /\ txDropped' = TRUE
       ELSE UNCHANGED <<final, txDropped>>
    /\ UNCHANGED <<coreVars, parserVars, cacheVars, wsEnv, wsNow, rxVars, wsTask, wsExit, beatVars>>

\* Time passes.
WsTick ==
    /\ wsNow < wsEnv.ms
    /\ wsNow' = wsNow + TickMs
    /\ UNCHANGED <<coreVars, parserVars, cacheVars, wsEnv, chanVars, rxVars, wsTask, wsExit, beatVars>>

\* The snapshots the Receiver has not passed yet.
Backlog == published - stats_rx

\* One turn of `while let Ok(stats) = stats_rx.recv().await` in
\* stats_updates_task.  recv() is Err(Lagged) when the backlog outgrew the
\* channel, Err(Closed) when the channel is empty and has no Sender, and either
\* ends the loop, the select! and the connection task.  A snapshot received is
\* merged into buffer_stats, which keeps the latest totals and timestamps, and
\* the buffer is sent only when STATS_THROTTLE_MS have passed since the last
\* stats message; sendOk is the outcome of session.text().  (A channel carries
\* one session's snapshots, so the start_time seen never changes after the
\* first and the forced update of a new session is not taken.)
WsRecv(sendOk) ==
    /\ wsTask = "open"
    /\ sendOk \/ wsEnv.drops
    /\ IF Backlog > BroadcastCapacity
       THEN /\ wsTask' = "ended" /\ wsExit' = "Lagged"
            /\ stats_rx' = published - BroadcastCapacity
            /\ UNCHANGED <<last_stats_update, buffer_stats, updates_received,
                           updates_sent, delivered>>
       ELSE IF Backlog = 0
       THEN /\ txDropped
            /\ wsTask' = "ended" /\ wsExit' = "Closed"
            /\ UNCHANGED rxVars
       ELSE /\ stats_rx' = stats_rx + 1
            /\ updates_received' = updates_received + 1
            /\ IF wsNow - last_stats_update >= STATS_THROTTLE_MS
               THEN /\ buffer_stats' = 0
                    /\ IF sendOk
                       THEN /\ delivered' = stats_rx'
                            /\ last_stats_update' = wsNow
                            /\ updates_sent' = updates_sent + 1
                            /\ UNCHANGED <<wsTask, wsExit>>
                       ELSE /\ wsTask' = "ended" /\ wsExit' = "peer"
                            /\ UNCHANGED <<delivered, last_stats_update, updates_sent>>
               ELSE /\ sendOk
                    /\ buffer_stats' = stats_rx'
                    /\ UNCHANGED <<delivered, last_stats_update, updates_sent,
                                   wsTask, wsExit>>
    /\ UNCHANGED <<coreVars, parserVars, cacheVars, wsEnv, wsNow, chanVars, beatVars>>

\* One turn of heartbeat_task at a tick of interval(HEARTBEAT_INTERVAL): the
\* connection is closed when now - last exceeds three intervals, with now taken
\* as Instant::now().elapsed().as_secs(); otherwise a ping is sent.
Heartbeat ==
    /\ wsTask = "open"
    /\ wsNow >= nextBeat
    /\ nextBeat' = nextBeat + HEARTBEAT_INTERVAL * 1000
    /\ IF InstantNowElapsedSecs - last_heartbeat > HEARTBEAT_INTERVAL * 3
       THEN wsTask' = "ended" /\ wsExit' = "heartbeat"
       ELSE UNCHANGED <<wsTask, wsExit>>
    /\ UNCHANGED <<coreVars, parserVars, cacheVars, wsEnv, wsNow, chanVars, rxVars, last_heartbeat, lastHeard>>

\* ws_msg_task on Message::Pong (and Message::Ping): last_heartbeat is stored.
WsPong ==
    /\ wsTask = "open"
    /\ wsEnv.pongs
    /\ wsNow > lastHeard
    /\ last_heartbeat' = InstantNowElapsedSecs
    /\ lastHeard' = wsNow
    /\ UNCHANGED <<coreVars, parserVars, cacheVars, wsEnv, wsNow, chanVars, rxVars, wsTask, wsExit, nextBeat>>

\* ws_msg_task on Message::Close, or the end of the message stream.
WsClose ==
    /\ wsTask = "open"
    /\ wsEnv.closes
    /\ wsTask' = "ended" /\ wsExit' = "peer"
    /\ UNCHANGED <<coreVars, parserVars, cacheVars, wsEnv, wsNow, chanVars, rxVars, beatVars>>

WsNext ==
    \/ \E sent \in {"processor", "stop"} : WsPublish(sent)
    \/ WsTick
    \/ \E sendOk \in BOOLEAN : WsRecv(sendOk)
    \/ Heartbeat
    \/ WsPong
    \/ WsClose

\* A WebSocket connection made to a server whose manager is not otherwise used.
WsInit ==
    /\ ManagerInit /\ env = Overrun
    /\ \E scenario \in WsScenarios : Connected(scenario)
    /\ CacheEmpty /\ Unread(TcpFrame)
WsSpec == WsInit /\ [][WsNext]_vars

\* ---------------------------------------------------------- interface cache
\* get_interface_info, first block: under cached_interfaces.read(), the cached
\* list is returned when it is younger than interface_cache_duration; the
\* guard is released before anything else is done.
CacheLookup(c) ==
    /\ callPc[c] = "idle"
    /\ IF cached_interfaces # None /\ cacheNow - cached_interfaces < interface_cache_duration
       THEN /\ served' = [served EXCEPT ![c] = cached_interfaces]
            /\ UNCHANGED callPc
       ELSE /\ callPc' = [callPc EXCEPT ![c] = "fetch"]
            /\ UNCHANGED served
    /\ UNCHANGED <<coreVars, parserVars, wsVars, cacheNow, cached_interfaces, lastFetch>>

\* get_interface_info: self.fetch_interface_info(), the query of the provider.
CacheFetch(c) ==
    /\ callPc[c] = "fetch"
    /\ lastFetch' = cacheNow
    /\ callPc' = [callPc EXCEPT ![c] = "store"]
    /\ UNCHANGED <<coreVars, parserVars, wsVars, cacheNow, cached_interfaces, served>>

\* get_interface_info, last block: under cached_interfaces.write(), the list
\* is stored with Instant::now().
CacheStore(c) ==
    /\ callPc[c] = "store"
    /\ cached_interfaces' = cacheNow
    /\ callPc' = [callPc EXCEPT ![c] = "idle"]
    /\ UNCHANGED <<coreVars, parserVars, wsVars, cacheNow, served, lastFetch>>

\* Time passes.
CacheTick ==
    /\ cacheNow < MaxCacheSecs
    /\ cacheNow' = cacheNow + CacheTickSecs
    /\ UNCHANGED <<coreVars, parserVars, wsVars, cached_interfaces, callPc, served, lastFetch>>

\* Handlers on several workers, each with the manager's read lock, calling
\* list_interfaces / get_interface_info.
CacheNext ==
    \/ \E c \in Callers : CacheLookup(c)
    \/ \E c \in Callers : CacheFetch(c)
    \/ \E c \in Callers : CacheStore(c)
    \/ CacheTick

CacheInit ==
    ManagerInit /\ env = Overrun /\ Connected(NoClient) /\ CacheEmpty /\ Unread(TcpFrame)
CacheSpec == CacheInit /\ [][CacheNext]_vars

\* ------------------------------------------------------------------ parser
\* The processor's call of parse_packet on a frame, and the info string a
\* packet summary is given.
ParsePacket ==
    /\ decoded = NotParsed
    /\ decoded' = parse_packet(frame)
    /\ info' = IF decoded'.ok THEN generate_info(decoded') ELSE ""
    /\ UNCHANGED <<coreVars, wsVars, cacheVars, frame>>

ParserNext == ParsePacket

ParserInit ==
    /\ ManagerInit /\ env = Overrun /\ Connected(NoClient) /\ CacheEmpty
    /\ \E f \in ParserFrames : Unread(f)
ParserSpec == ParserInit /\ [][ParserNext]_vars

\* One step of the processor task of session s.
ProcStep(s) == ProcRecv(s) \/ ProcInsert(s) \/ ProcCount(s) \/ ProcRemove(s) \/ ProcExit(s)

\* The runs of a server with arbitrary clients in which the runtime keeps
\* polling the processor tasks: a processor that can take a step (a frame is
\* queued, a step is under way, or its channel has closed) takes it.  Nothing
\* is assumed of the capture tasks, the threads or the callers.
DrainInit == Init /\ env = Service
DrainSpec ==
    /\ DrainInit
    /\ [][ManagerNext]_vars
    /\ \A s \in Sessions : WF_vars(ProcStep(s))

\* ------------------------------------------------------------------ claims
\* A processor step (insert followed by enforce_buffer_limit) of session s
\* completes in this transition.
StepCompletes(s) == (ProcInsert(s) \/ ProcRemove(s)) /\ proc'[s] = "recv"

\* No processor is inside a step.
Quiescent == \A s \in Sessions : proc[s] \in {"none", "recv", "done"}

Min(a, b) == IF a < b THEN a ELSE b

DistinctTimestamps(P) == \A p, q \in P : p # q => p.timestamp # q.timestamp

\* The n packets of P with the latest timestamps.
Latest(P, n) == {p \in P : Cardinality({q \in P : q.timestamp > p.timestamp}) < n}

\* C1: whenever a processor completes a step (insert followed by
\* enforce_buffer_limit), the packet store holds at most the buffer_size of
\* the configuration that processor runs with.
C1_StoreWithinBufferSize ==
    [][\A s \in Sessions :
          StepCompletes(s) => Cardinality(packets') <= procConfig[s].buffer_size]_vars

\* C2: eviction removes the oldest packets first: when no processor is inside
\* a step and the N packets inserted since the store was cleared carry distinct
\* timestamps, the store holds exactly the min(N, C) of them with the latest
\* timestamps, C being the buffer_size of the session started last.
C2_StoreHoldsLatest ==
    (nSessions > 0 /\ Quiescent /\ DistinctTimestamps(processed)) =>
        packets = Latest(processed,
                         Min(Cardinality(processed), procConfig[nSessions].buffer_size))

\* C3: packet ids are unique for the lifetime of the process: generate_id never
\* returns the same id twice, across stops and restarts of the capture.
C3_IdsUnique ==
    \A i, j \in 1..Len(issuedLog) : i # j => issuedLog[i] # issuedLog[j]

\* C3 witness: the processors of two sessions have each been given an id.
C3_Witness == cur[1].id # 0 /\ cur[2].id # 0

\* C4: packet ids are strictly increasing in the order of the inserts into the
\* store: every insert carries a larger id than the insert before it.
C4_IdsIncreaseInInsertionOrder ==
    [][\A s \in Sessions : ProcInsert(s) => cur[s].id > lastInserted]_vars

\* C5: the total_packets of a session's stats equals the number of packets its
\* processor inserted into the store and total_bytes the sum of their lengths,
\* also when get_stats queries run concurrently with the processor.
C5_TotalsMatchInserted ==
    \A s \in Sessions :
        /\ sharedStats[s].total_packets = inserted[s].count
        /\ sharedStats[s].total_bytes = inserted[s].bytes

\* Every stats value there is: the manager's own, the shared aggregate of each
\* session, the last query result and the last published snapshot.
StatsValues == {stats, queryResult, lastSent.stats} \cup {sharedStats[s] : s \in Sessions}

\* C6: in every stats value (shared aggregate, query result, published
\* snapshot) the per-protocol counts add up to total_packets.
C6_ProtocolsSumToTotal == \A st \in StatsValues : ProtocolSum(st) = st.total_packets

\* C6 witness: a query has returned, and a snapshot was published with, the
\* counts of two packets of different protocols.
C6_Witness ==
    /\ queryResult.total_packets = 2
    /\ queryResult.protocols["DNS"] = 1
    /\ lastSent.stats.total_packets = 2

\* The processor of session s receives a frame that fails to decode.
DecodeFails(s) == ProcRecv(s) /\ ~parse_packet(Head(chan[s]).frame).ok

\* C7: a frame that fails to decode increments the errors counter by exactly
\* one and leaves total_packets, total_bytes and the packet store unchanged.
C7_DecodeErrorCounted ==
    [][\A s \in Sessions :
          DecodeFails(s) =>
              /\ sharedStats'[s].errors = sharedStats[s].errors + 1
              /\ sharedStats'[s].total_packets = sharedStats[s].total_packets
              /\ sharedStats'[s].total_bytes = sharedStats[s].total_bytes
              /\ packets' = packets]_vars

\* The processor of session s sends a snapshot in this transition.
ProcessorPublishes(s) == ProcInsert(s) /\ TryLock(s)

\* C8: the processor publishes at most once per 1000 ms of wall clock: when it
\* sends a snapshot on the channel its previous snapshot went to, at least
\* StatsBroadcastIntervalMs have passed since.
C8_PublishThrottled ==
    [][\A s \in Sessions :
          (ProcessorPublishes(s) /\ lastSent.from = "processor" /\ lastSent.tx = procTx[s])
              => clock - lastSent.at >= StatsBroadcastIntervalMs]_vars

\* C9: with no call in flight, status() is true exactly when a start() has
\* returned Ok and no stop() has returned since.
C9_StatusTracksSession == stopPc = "idle" => (get_status <=> sessionOpen)

\* start() is called while Running; stop() is called while Idle.
StartWhileRunning == is_running /\ \E open \in {"ok", "fail"} : start_capture(open)
StopWhileIdle == ~is_running /\ StopBegin

\* The running flag, the packet store, the stats, the broadcaster and the stop
\* flag are as before, and nothing was published.
NothingChanged ==
    UNCHANGED <<is_running, packets, stats, sharedStats, stats_tx, STOP_REQUESTED, lastSent>>

\* C10: start() while Running returns AlreadyRunning and stop() while Idle
\* returns NotRunning, and both leave the running flag, the store, the stats,
\* the broadcaster and the stop flag unchanged and publish nothing.
C10_RejectedCallsChangeNothing ==
    [][/\ StartWhileRunning =>
             (ret' = [op |-> "start", result |-> "AlreadyRunning"] /\ NothingChanged)
       /\ StopWhileIdle =>
             (ret' = [op |-> "stop", result |-> "NotRunning"] /\ NothingChanged)]_vars

\* C10 witness: a start() was rejected while a capture with stored packets and
\* counted stats was running.
C10_Witness ==
    /\ ret = [op |-> "start", result |-> "AlreadyRunning"]
    /\ is_running
    /\ packets # {}
    /\ sharedStats[1].total_packets > 0

\* start() is called while Idle with no interface configured.
StartWithoutInterface ==
    /\ ~is_running
    /\ config.interface = NoInterface
    /\ \E open \in {"ok", "fail"} : start_capture(open)

OpenFails == ~is_running /\ interface_selected /\ start_capture("fail")

\* C12: when opening the capture handle fails, start() returns a CaptureError
\* and the manager is Idle afterwards: status() returns false, so that a
\* subsequent start() is not refused as already running.
C12_OpenFailureLeavesIdle ==
    [][OpenFails => (ret' = [op |-> "start", result |-> "CaptureError"] /\ ~is_running')]_vars

\* start() passes its checks, the capture handle opens, and pcap refuses the
\* configured filter.
FilterRefused ==
    /\ ~is_running
    /\ interface_selected
    /\ config.filter \notin ValidFilters \cup {NoFilter}
    /\ start_capture("ok")

\* C13: when applying the configured filter to the opened handle fails,
\* start() fails with a CaptureError and the manager returns to Idle without
\* entering Running: no session is started.
C13_FilterFailureFailsStart ==
    [][FilterRefused =>
          /\ ret' = [op |-> "start", result |-> "CaptureError"]
          /\ ~is_running'
          /\ nSessions' = nSessions]_vars

\* C14: a stop() called in Running always returns, with success and the
\* manager Idle, whatever the capture task and its thread do: the wait for the
\* capture task ends at the latest with the 5 s join timeout.
C14_StopAlwaysReturns ==
    (stopPc # "idle") ~>
        (stopPc = "idle" /\ ret = [op |-> "stop", result |-> "Ok"] /\ ~get_status)

\* C14 witness: stop() has returned Ok while the capture task it waited for is
\* still in its select! and the capture thread still inside next_packet().
C14_Witness ==
    /\ stopPc = "idle"
    /\ ret = [op |-> "stop", result |-> "Ok"]
    /\ ~get_status
    /\ task[1] = "select"
    /\ thread[1] = "next"

\* A stop_capture call in flight returns in this transition.
StopReturns == \E timedOut \in BOOLEAN : StopFinish(timedOut)

\* C15: every stop() from Running publishes exactly one final snapshot, with
\* end_time set, on the broadcaster of the session (the channel the session's
\* processor sends on and its subscribers listen to), and only then replaces
\* the broadcaster; no other step of the system publishes a snapshot with an
\* end time.
C15_StopPublishesFinalSnapshot ==
    [][/\ StopReturns =>
             /\ lastSent' = [tx |-> stats_tx, stats |-> stats', from |-> "stop", at |-> clock]
             /\ stats'.end_time # None
             /\ stats_tx' # stats_tx
             /\ sessionOpen => procTx[nSessions] = stats_tx
       /\ (StopBegin \/ StopSetFlag) => lastSent' = lastSent
       /\ (lastSent' # lastSent /\ lastSent'.stats.end_time # None) => StopReturns]_vars

\* C15 witness: stop() has returned after sending the final snapshot, end_time
\* set, on the channel of session 1, and the manager holds a new channel.
C15_Witness ==
    /\ ret = [op |-> "stop", result |-> "Ok"]
    /\ lastSent.from = "stop"
    /\ lastSent.tx = procTx[1]
    /\ lastSent.stats.end_time # None
    /\ stats_tx # lastSent.tx

\* A get_stats call returns its value in this transition.
QueryReturns == GetStatsClone \/ GetStatsContended \/ (GetStatsLock /\ shared_stats = 0)

\* C16: a stats query answered after stop() has returned, and before the next
\* start(), returns the frozen aggregate of the stopped session: end_time is
\* set and total_packets and total_bytes are the totals the session's processor
\* accumulated.
C16_QueryAfterStopIsFrozenAggregate ==
    [][(QueryReturns /\ stopPc = "idle" /\ ret = [op |-> "stop", result |-> "Ok"]) =>
          /\ queryResult'.end_time # None
          /\ queryResult'.total_packets = sharedStats[nSessions].total_packets
          /\ queryResult'.total_bytes = sharedStats[nSessions].total_bytes]_vars

\* C17: a receiver subscribed in one session gets nothing more once that
\* session is stopped or a new one is started: every snapshot is sent on the
\* broadcaster the manager holds at that moment, never on a channel that
\* stop() or start() has already replaced.
C17_NoSnapshotOnReplacedChannel ==
    [][lastSent' # lastSent => lastSent'.tx = stats_tx]_vars

\* start() returns Ok in this transition.
StartSucceeds == ~is_running /\ interface_selected /\ start_capture("ok")

\* C18: a successful start() fully resets the store and the aggregate: when it
\* returns the stats have zero counters, a fresh start_time and no end_time,
\* and from then until the session is stopped the store holds only packets
\* captured in the new session.
C18_StartResetsStoreAndStats ==
    [][/\ StartSucceeds =>
             /\ stats' = [DefaultStats EXCEPT !.start_time = clock]
             /\ sharedStats'[nSessions'] = stats'
       /\ sessionOpen' => \A p \in packets' : p.session = nSessions']_vars

\* The capture loop of the running session has terminated on its own, on an
\* error of the capture handle, and its run_capture task has ended; no stop()
\* was called.
CaptureEndedOnItsOwn ==
    /\ sessionOpen
    /\ stopPc = "idle"
    /\ thread[nSessions] = "done"
    /\ task[nSessions] = "done"

\* C19: when the capture loop terminates on its own while the manager is
\* Running, the manager becomes Idle (status() is false), end_time is set and
\* a terminal snapshot carrying it is published.
C19_CaptureFailureStopsManager ==
    CaptureEndedOnItsOwn =>
        /\ ~get_status
        /\ stats.end_time # None
        /\ lastSent.stats.end_time # None

\* C20: the stop request stays visible to the capture thread until the thread
\* has observed it, so that the thread of a stopped session terminates:
\* STOP_REQUESTED is never cleared, by stop(), by the capture task or by a
\* later start(), while a capture thread is still inside its loop.
C20_StopRequestStaysVisible ==
    [][(STOP_REQUESTED /\ ~STOP_REQUESTED') => \A s \in Sessions : thread[s] # "next"]_vars

\* The sessions whose capture loop is live: the blocking thread is inside its
\* loop and owns the open capture handle.
LiveLoops == {s \in Sessions : thread[s] = "next"}

\* C21: at most one capture loop, with its open capture handle, is live at any
\* time, and none is live while the manager is Idle with no call in flight.
C21_AtMostOneCaptureLoop ==
    /\ Cardinality(LiveLoops) <= 1
    /\ (~get_status /\ stopPc = "idle") => LiveLoops = {}

\* A call of one of the four setters of the configuration.
SetterCall ==
    \/ \E name \in {"eth0", "eth1"} : set_interface(name)
    \/ \E n \in SetterBufferSizes : set_buffer_size(n)
    \/ \E filter \in ValidFilters : set_filter(filter)
    \/ set_promiscuous(TRUE)

\* C22: a setter called while Running leaves the running session as it was
\* started (the interface, promiscuous mode and store capacity its processor
\* holds, and the filter of its handle); a session's settings are fixed by the
\* start() that begins it, which takes the values the setters left.
C22_SettersTakeEffectOnNextStart ==
    [][/\ (SetterCall /\ is_running) =>
              (procConfig' = procConfig /\ handleFilter' = handleFilter)
       /\ \A s \in Sessions :
              procConfig'[s] # procConfig[s] => (StartSucceeds /\ s = nSessions')
       /\ StartSucceeds =>
              /\ procConfig'[nSessions'] = config
              /\ config.filter \in ValidFilters \cup {NoFilter} =>
                     handleFilter'[nSessions'] = config.filter]_vars

\* The second session runs with the capacity and interface set during the
\* first, whose own stayed as started, while settings made since wait.
C22_Witness ==
    /\ nSessions = 2 /\ is_running
    /\ procConfig[1].buffer_size = 1 /\ procConfig[2].buffer_size = MinBufferSize
    /\ procConfig[1].interface = "eth0" /\ procConfig[2].interface = "eth1"
    /\ config.filter = "tcp" /\ procConfig[2].filter = NoFilter
    /\ handleFilter[2] = NoFilter

\* C23: a setter invoked while the manager is Running is rejected: it changes
\* no setting (the operation is valid only in Idle).
C23_SetterWhileRunningRejected ==
    [][(SetterCall /\ is_running) => config' = config]_vars

\* C24: the store capacity in effect for any session is at least 100, however
\* buffer_size was supplied (construction or the setter).
C24_CapacityAtLeastMinimum ==
    \A s \in Sessions : proc[s] # "none" => procConfig[s].buffer_size >= MinBufferSize

\* C28: the HTTP adapter maps the manager's errors to status codes by kind:
\* start while running and stop while idle to 409, a missing interface to 400,
\* a capture open failure to 500 and a handler timeout to 503.
C28_ErrorsMapToStatusCodes ==
    /\ ret.result \in {"AlreadyRunning", "NotRunning"} => HttpStatus(ret) = 409
    /\ ret.result = "NoInterface" => HttpStatus(ret) = 400
    /\ ret.result = "CaptureError" => HttpStatus(ret) = 500
    /\ ret.result = "Timeout" => HttpStatus(ret) = 503

\* C29: a stop handler whose timeout fired never leaves the manager half
\* stopped: either stop() had no effect and the manager is still Running, or
\* the end time is set and the final snapshot, carrying it, was published.
C29_TimedOutStopLeavesCoreConsistent ==
    (stopPc = "idle" /\ ret = [op |-> "stop", result |-> "Timeout"]) =>
        \/ get_status
        \/ stats.end_time # None /\ lastSent.stats.end_time # None

\* C25: a subscriber whose backlog outgrew the channel loses the oldest
\* messages and keeps receiving: its connection is not ended for having lagged.
C25_LaggingSubscriberKeepsReceiving ==
    wsTask = "ended" => wsExit # "Lagged"

\* C26: at a heartbeat tick the server closes a connection from whose peer
\* nothing has arrived for more than 15 s (three ping intervals).
C26_SilentPeerIsClosed ==
    [][(Heartbeat /\ wsNow - lastHeard > 3 * HEARTBEAT_INTERVAL * 1000) =>
           wsTask' = "ended"]_vars

\* C27: every snapshot the connection receives from the broadcaster is sent to
\* the client as a stats message, and once the channel has closed after a
\* stop() the last stats message sent is the final snapshot.
C27_EverySnapshotReachesClient ==
    /\ wsTask = "open" => updates_sent = updates_received
    /\ (wsExit = "Closed" /\ final # 0) => delivered = final

\* C30: within 60 s of a fetch the interface provider is not invoked again,
\* whoever calls and however the calls overlap.
C30_ProviderNotInvokedWithinCacheDuration ==
    [][\A c \in Callers :
           CacheFetch(c) =>
               (lastFetch = None \/ cacheNow - lastFetch >= interface_cache_duration)]_vars

\* C31: in every decoded packet a source port comes only with protocol TCP, UDP
\* or DNS, and an ARP packet has no addresses and no ports.
C31_PortsAndAddressesMatchProtocol ==
    decoded.ok =>
        /\ decoded.source_port # None => decoded.protocol \in {"TCP", "UDP", "DNS"}
        /\ decoded.protocol = "ARP" =>
               /\ decoded.source_ip = None /\ decoded.destination_ip = None
               /\ decoded.source_port = None /\ decoded.destination_port = None

\* An ARP frame was decoded.
C31_Witness == decoded.ok /\ decoded.protocol = "ARP" /\ frame.sport = DnsPort

\* C33: a TCP packet whose destination port is 443 has the info string
\* "HTTPS Traffic", whatever its source port.
C33_Port443IsHttps ==
    (decoded.ok /\ decoded.protocol = "TCP" /\ decoded.destination_port = 443) =>
        info = "HTTPS Traffic"

\* The frame at the head of the channel of session s is a UDP datagram from or
\* to port 53 that decodes.
UdpPort53(f) ==
    /\ f.ethertype \in {"Ipv4", "Ipv6"} /\ f.ipproto = "Udp"
    /\ (f.sport = DnsPort \/ f.dport = DnsPort)
    /\ parse_packet(f).ok

\* C32: every UDP packet from or to port 53 is tagged DNS, its info string is
\* "DNS Query/Response", and when it is inserted it is counted under
\* protocols["DNS"] of its session's stats.
C32_Port53IsDnsAndCounted ==
    [][\A s \in Sessions :
          /\ (ProcRecv(s) /\ UdpPort53(Head(chan[s]).frame)) =>
                 /\ cur'[s].protocol = "DNS"
                 /\ generate_info(parse_packet(Head(chan[s]).frame)) = "DNS Query/Response"
          /\ (ProcInsert(s) /\ cur[s].protocol = "DNS") =>
                 sharedStats'[s].protocols["DNS"] = sharedStats[s].protocols["DNS"] + 1]_vars

\* C34: the capture loop does not go on after five errors in a row that are not
\* timeouts: a loop still reading has seen fewer than five.
C34_LoopEndsAfterFiveErrors ==
    \A s \in Sessions : thread[s] = "next" => errorRun[s] < 5

\* The packets ProcRemove takes out of the store in this transition.
Evicted == packets \ packets'

\* C35: when eviction removes only some of the stored packets that share a
\* timestamp, the ones it removes have lower ids than the ones it keeps.
C35_TiesEvictLowerIdsFirst ==
    [][\A s \in Sessions :
          ProcRemove(s) =>
              \A p \in Evicted : \A q \in packets' :
                  p.timestamp = q.timestamp => p.id < q.id]_vars

C37_FinalSnapshotIsCumulative ==
    [][(StopReturns /\ lastSent.tx = stats_tx) =>
           /\ lastSent'.stats.total_packets >= lastSent.stats.total_packets
           /\ lastSent'.stats.total_bytes >= lastSent.stats.total_bytes]_vars

\* C38: while a session is running the total_packets a stats query returns is
\* not lower than what the query before it returned, also when the query
\* finds the stats mutex held.
C38_QueriedTotalNeverDecreases ==
    [][(QueryReturns /\ is_running) =>
           queryResult'.total_packets >= queryResult.total_packets]_vars

\* C39: a start() that fails to open the capture handle leaves the stored
\* packets, the stored stats and the current broadcaster as they were.
C39_FailedStartHasNoSideEffects ==
    [][OpenFails => (packets' = packets /\ stats' = stats /\ stats_tx' = stats_tx)]_vars

\* A call of start() in this transition.
StartCall == \E open \in {"ok", "fail"} : start_capture(open)

\* stop() has returned Ok and no start() has been called since.
Stopped == stopPc = "idle" /\ ret = [op |-> "stop", result |-> "Ok"] /\ ~sessionOpen

\* C40: between the return of stop() and the next start() no packet is
\* inserted into or evicted from the store, the shared stats of no session
\* change and no frame is read from a capture handle.
C40_QuiescentAfterStop ==
    [][(Stopped /\ ~StartCall) =>
           (packets' = packets /\ sharedStats' = sharedStats /\ framesRead' = framesRead)]_vars

====
